---- MODULE Spec2Model ----
(***************************************************************************)
(* A model of the resharing command of rockx-dkg-cli                       *)
(* (internal/cli/handle_resharing.go) and of the messenger client          *)
(* (internal/messenger/client.go).                                         *)
(*                                                                         *)
(* Text is modelled as a sequence of one-character strings, so that        *)
(* strings.Trim, strings.Split, strconv.Atoi, strconv.Itoa and the hex     *)
(* codec are computed character by character, as the library does.         *)
(***************************************************************************)
EXTENDS Integers, Sequences, FiniteSets, TLC

VARIABLES
    flags,          \* the command line: operator, oldOperator, threshold, validatorPK
    pc,             \* position of HandleResharing
    request,        \* the ResharingRequest being filled / used
    requestID,      \* dkg.RequestID drawn by getRandRequestID
    alloperators,   \* append(operators, operatorsOld...)
    initMsgBytes,   \* the payload returned by initMsgForResharing
    sent,           \* number of loop iterations of the delivery loop done
    topicCalls,     \* POSTs made to {messenger}/topics, with their outcome
    consumeCalls,   \* POSTs made to {addr}/consume, with their outcome
    composeFaults,  \* the decoding/encoding steps of initMsgForResharing that erred
    stdout,         \* lines printed by HandleResharing
    ret,            \* the error HandleResharing returned (NoError for nil)
    regArgs,        \* RegisterOperatorNode: the arguments id, addr
    regPc,          \* RegisterOperatorNode: "loop", "afterLoop", "returned", "panicked"
    try,            \* RegisterOperatorNode: the loop counter
    errors,         \* RegisterOperatorNode: the collected errors
    regCalls,       \* POSTs made to {messenger}/register_node, with their outcome
    regRet,         \* the error RegisterOperatorNode returned (NoError for nil)
    output,         \* StreamDKGOutput: the map of signed outputs it is given
    streamPc,       \* StreamDKGOutput: "start", "returned"
    streamCalls,    \* POSTs made to {messenger}/stream/dkgoutput, with their outcome
    streamRet,      \* the error StreamDKGOutput returned (NoError for nil)
    db,             \* Storage: the key-value store, a map from key to value
    getCalls        \* GetDKGOperator: the calls made so far, with what each returned

reshareVars == <<flags, pc, request, requestID, alloperators, initMsgBytes, sent,
                 topicCalls, consumeCalls, composeFaults, stdout, ret>>
regVars == <<regArgs, regPc, try, errors, regCalls, regRet>>
streamVars == <<output, streamPc, streamCalls, streamRet>>
storeVars == <<db, getCalls>>
vars == <<reshareVars, regVars, streamVars, storeVars>>

----------------------------------------------------------------------------
(* Bounds of the model *)

\* the number of --operator and --old-operator flags on one command line
MaxSpecs == 2

\* the number of signed outputs in the map given to StreamDKGOutput
MaxOutputs == 2

\* the number of calls of GetDKGOperator in one run
MaxCalls == 3

----------------------------------------------------------------------------
(* Values *)

\* a nil error
NoError == [kind |-> "nil"]

\* a nil byte slice
NilBytes == [kind |-> "nilBytes"]

\* The outcome of one http.Client.Post: a response with status 200, a response
\* with another status, or a transport error (no response).
PostOutcomes == {"200", "500", "transportError"}

\* the transport error returned by http.Client.Post for a url
TransportError(url) == [kind |-> "transport", url |-> url]

----------------------------------------------------------------------------
(* Library functions, computed as the Go standard library computes them *)

Digits == <<"0", "1", "2", "3", "4", "5", "6", "7", "8", "9">>
HexDigits == Digits \o <<"a", "b", "c", "d", "e", "f">>

IsDigit(c) == \E i \in 1..Len(Digits) : Digits[i] = c
DigitVal(c) == (CHOOSE i \in 1..Len(Digits) : Digits[i] = c) - 1
IsHexDigit(c) == \E i \in 1..Len(HexDigits) : HexDigits[i] = c
HexVal(c) == (CHOOSE i \in 1..Len(HexDigits) : HexDigits[i] = c) - 1

RECURSIVE TrimLeft(_, _)
TrimLeft(s, c) == IF s # <<>> /\ Head(s) = c THEN TrimLeft(Tail(s), c) ELSE s

RECURSIVE TrimRight(_, _)
TrimRight(s, c) ==
    IF s # <<>> /\ s[Len(s)] = c THEN TrimRight(SubSeq(s, 1, Len(s) - 1), c) ELSE s

\* strings.Trim(s, c) for a one-character cutset
Trim(s, c) == TrimRight(TrimLeft(s, c), c)

\* strings.Split(s, sep) for a one-character separator
RECURSIVE Split(_, _)
Split(s, sep) ==
    IF \E i \in 1..Len(s) : s[i] = sep
    THEN LET i == CHOOSE i \in 1..Len(s) :
                      s[i] = sep /\ \A j \in 1..(i - 1) : s[j] # sep
         IN  <<SubSeq(s, 1, i - 1)>> \o Split(SubSeq(s, i + 1, Len(s)), sep)
    ELSE <<s>>

RECURSIVE DecimalValue(_, _)
DecimalValue(s, acc) ==
    IF s = <<>> THEN acc ELSE DecimalValue(Tail(s), 10 * acc + DigitVal(Head(s)))

\* strconv.Atoi: an optional sign, then one or more decimal digits
Atoi(s) ==
    LET signed == s # <<>> /\ Head(s) \in {"-", "+"}
        body == IF signed THEN Tail(s) ELSE s
    IN  IF body = <<>> \/ \E i \in 1..Len(body) : ~IsDigit(body[i])
        THEN [err |-> [kind |-> "atoiSyntax", input |-> s], val |-> 0]
        ELSE [err |-> NoError,
              val |-> IF Head(s) = "-" THEN 0 - DecimalValue(body, 0)
                                       ELSE DecimalValue(body, 0)]

RECURSIVE DecimalDigits(_)
DecimalDigits(n) ==
    IF n < 10 THEN <<Digits[n + 1]>>
    ELSE DecimalDigits(n \div 10) \o <<Digits[(n % 10) + 1]>>

\* strconv.Itoa
Itoa(n) == IF n < 0 THEN <<"-">> \o DecimalDigits(0 - n) ELSE DecimalDigits(n)

\* hex.EncodeToString
RECURSIVE HexEncodeToString(_)
HexEncodeToString(bytes) ==
    IF bytes = <<>> THEN <<>>
    ELSE <<HexDigits[(Head(bytes) \div 16) + 1], HexDigits[(Head(bytes) % 16) + 1]>>
         \o HexEncodeToString(Tail(bytes))

RECURSIVE HexBytes(_)
HexBytes(s) ==
    IF s = <<>> THEN <<>>
    ELSE <<16 * HexVal(s[1]) + HexVal(s[2])>> \o HexBytes(SubSeq(s, 3, Len(s)))

\* hex.DecodeString: an even number of hexadecimal digits
HexDecodeString(s) ==
    IF Len(s) % 2 # 0 \/ \E i \in 1..Len(s) : ~IsHexDigit(s[i])
    THEN [err |-> [kind |-> "hexDecode", input |-> s], bytes |-> NilBytes]
    ELSE [err |-> NoError, bytes |-> HexBytes(s)]

\* the orders in which a Go map with key set S can be ranged over
MapOrders(S) ==
    {s \in [1..Cardinality(S) -> S] : \A i, j \in DOMAIN s : i # j => s[i] # s[j]}

\* an assignment that keeps the value a key already has (a mutant of MapPut)
MapPut_KeepFirst(m, k, v) ==
    [x \in (DOMAIN m) \cup {k} |-> IF x \in DOMAIN m THEN m[x] ELSE v]

\* m[k] = v on a Go map
MapPut(m, k, v) == [x \in (DOMAIN m) \cup {k} |-> IF x = k THEN v ELSE m[x]]

EmptyMap == [x \in {} |-> <<>>]

\* types.OperatorID(opID): the conversion int -> uint64 keeps the 64 bits; the
\* bit pattern is represented here by its signed reading, which is also what
\* int(operatorID) gives back in CreateTopic.
OperatorID(opID) == opID

----------------------------------------------------------------------------
(* The command lines explored *)

OperatorFlagValues ==
    { <<"1", "=", "a">>,
      <<" ", "2", "=", "b", " ">>,
      <<"1", "=", "c">>,
      <<"3", "=", "c">>,
      <<"-", "1", "=", "a">>,
      <<"x", "=", "a">>,
      <<"1", "a">>,
      <<"1", "=", "a", "=", "b">> }

ThresholdFlagValues == {2, 65537}

ValidatorPKFlagValues ==
    { <<"a", "b", "1", "2">>, <<"z", "z">>, <<"a", "b", "c">> }

\* stand-ins for the random request identifiers (a few bytes of the 24)
RequestIDs == { <<0, 171>>, <<18, 52>> }

FlagLists(n) == UNION {[1..k -> OperatorFlagValues] : k \in 0..n}

CommandLines ==
    {f \in [operator : FlagLists(MaxSpecs), oldOperator : FlagLists(MaxSpecs),
            threshold : ThresholdFlagValues, validatorPK : ValidatorPKFlagValues] :
        Len(f.operator) + Len(f.oldOperator) <= MaxSpecs}

----------------------------------------------------------------------------
(* internal/cli/handle_resharing.go *)

EmptyRequest ==
    [Operators |-> EmptyMap, Threshold |-> 0, ValidatorPK |-> <<>>,
     OperatorsOld |-> EmptyMap]

\* a shape test that only asks for an "=" (a mutant of IsKeyValue)
IsKeyValue_AtLeastTwo(pair) == Len(pair) >= 2

\* the shape test of one key=value specification (lines 104 and 118)
IsKeyValue(pair) == Len(pair) = 2

\* One loop of parseResharingRequest over a list of key=value specifications,
\* filling the map m; it stops at the first specification it rejects.
RECURSIVE parseOperatorList(_, _)
parseOperatorList(kv, m) ==
    IF kv = <<>> THEN [err |-> NoError, ops |-> m]
    ELSE LET op == Trim(Head(kv), " ")
             pair == Split(op, "=")
         IN  IF ~IsKeyValue(pair)
             THEN [err |-> [kind |-> "notKeyValue", op |-> op], ops |-> m]
             ELSE LET opID == Atoi(pair[1])
                  IN  IF opID.err # NoError
                      THEN [err |-> opID.err, ops |-> m]
                      ELSE parseOperatorList(Tail(kv),
                                             MapPut(m, OperatorID(opID.val), pair[2]))

\* parseResharingRequest: the error returned and the request as it is left
parseResharingRequest(c) ==
    LET new == parseOperatorList(c.operator, EmptyMap)
        old == parseOperatorList(c.oldOperator, EmptyMap)
        base == [EmptyRequest EXCEPT !.Threshold = c.threshold,
                                     !.ValidatorPK = c.validatorPK]
    IN  IF new.err # NoError
        THEN [err |-> new.err, request |-> [base EXCEPT !.Operators = new.ops]]
        ELSE [err |-> old.err,
              request |-> [base EXCEPT !.Operators = new.ops,
                                       !.OperatorsOld = old.ops]]

\* nodeAddress: the address in the new map when the ID is there, else the old one
\* (a missing key of a Go map reads as the empty string)
nodeAddress(req, operatorID) ==
    IF operatorID \in DOMAIN req.Operators THEN req.Operators[operatorID]
    ELSE IF operatorID \in DOMAIN req.OperatorsOld THEN req.OperatorsOld[operatorID]
    ELSE <<>>

\* newOperators / oldOperators: the keys of the map, in any order of iteration
newOperators(req) == MapOrders(DOMAIN req.Operators)
oldOperators(req) == MapOrders(DOMAIN req.OperatorsOld)

\* the encoders called by initMsgForResharing (ssv-spec); each returns (bytes, error)
EncodeSteps == {"encodeReshare", "encodeSigned", "encodeOuter"}

\* an Encode() call: nil bytes when it errs, the encoded value otherwise
Encode(value, failed) == IF failed THEN NilBytes ELSE value

\* initMsgForResharing with the iteration orders of the two maps and the set of
\* encoders that err: the payload, the error returned and the steps that erred.
\* The errors of reshare.Encode() and reshareMsg.Encode() are dropped (lines 168, 177).
initMsgForResharing(req, id, newOrder, oldOrder, encodeErrs) ==
    LET vk == HexDecodeString(req.ValidatorPK)
        reshare == [OperatorIDs |-> newOrder,
                    Threshold |-> req.Threshold % 65536,
                    ValidatorPK |-> vk.bytes,
                    OldOperatorIDs |-> oldOrder]
        reshareBytes == Encode(reshare, "encodeReshare" \in encodeErrs)
        reshareMsg == [Signer |-> 1,
                       Message |-> [MsgType |-> "ReshareMsgType",
                                    Identifier |-> id,
                                    Data |-> reshareBytes]]
        byts == Encode(reshareMsg, "encodeSigned" \in encodeErrs)
        msg == [MsgType |-> "DKGMsgType", Data |-> byts]
    IN  IF vk.err # NoError
        THEN [bytes |-> NilBytes, err |-> vk.err, faults |-> {"decodeValidatorPK"}]
        ELSE [bytes |-> Encode(msg, "encodeOuter" \in encodeErrs),
              err |-> IF "encodeOuter" \in encodeErrs
                      THEN [kind |-> "encode", step |-> "encodeOuter"] ELSE NoError,
              faults |-> encodeErrs]

\* fmt.Errorf("...: %w", err)
Wrap(msg, err) == [kind |-> "wrapped", msg |-> msg, cause |-> err]

\* the error sendReshareMsg returns for the outcome of its POST (lines 75-84)
sendReshareMsg(operatorID, url, outcome) ==
    IF outcome = "transportError" THEN TransportError(url)
    ELSE IF outcome # "200"
         THEN [kind |-> "reshareStatus", code |-> outcome, operatorID |-> operatorID]
         ELSE NoError

----------------------------------------------------------------------------
(* internal/messenger/client.go *)

MessengerAddr == <<"messenger">>

\* the body CreateTopic posts (lines 168-175)
TopicJSON(name, l) ==
    [TopicName |-> name,
     Subscribers |-> [i \in 1..Len(l) |-> Itoa(l[i])]]

\* CreateTopic without its status check (a mutant of CreateTopic)
CreateTopic_NoStatusCheck(url, outcome) ==
    IF outcome = "transportError" THEN TransportError(url) ELSE NoError

\* the error CreateTopic returns for the outcome of its POST (lines 177-186)
CreateTopic(url, outcome) ==
    IF outcome = "transportError" THEN TransportError(url)
    ELSE IF outcome # "200" THEN [kind |-> "createTopicStatus"]
         ELSE NoError

----------------------------------------------------------------------------
(* HandleResharing, step by step *)

\* StreamDKGOutput is not running
StreamIdle ==
    /\ output = EmptyMap
    /\ streamPc = "idle"
    /\ streamCalls = <<>>
    /\ streamRet = NoError

\* no storage is in use
StoreIdle ==
    /\ db = EmptyMap
    /\ getCalls = <<>>

InitReshare ==
    /\ StreamIdle
    /\ StoreIdle
    /\ flags \in CommandLines
    /\ pc = "start"
    /\ request = EmptyRequest
    /\ requestID = <<>>
    /\ alloperators = <<>>
    /\ initMsgBytes = NilBytes
    /\ sent = 0
    /\ topicCalls = <<>>
    /\ consumeCalls = <<>>
    /\ composeFaults = {}
    /\ stdout = <<>>
    /\ ret = NoError
    /\ regArgs = [id |-> <<>>, addr |-> <<>>]
    /\ regPc = "idle"
    /\ try = 0
    /\ errors = <<>>
    /\ regCalls = <<>>
    /\ regRet = NoError

\* lines 40-50: parse the request, draw the request ID, list all operators
ParseStep ==
    /\ pc = "start"
    /\ LET r == parseResharingRequest(flags)
       IN  /\ request' = r.request
           /\ IF r.err # NoError
              THEN /\ ret' = Wrap("HandleResharing: failed to parse resharing request", r.err)
                   /\ pc' = "returned"
                   /\ UNCHANGED <<requestID, alloperators>>
              ELSE /\ \E id \in RequestIDs :
                        \E operators \in newOperators(r.request) :
                            \E operatorsOld \in oldOperators(r.request) :
                                /\ requestID' = id
                                /\ alloperators' = operators \o operatorsOld
                   /\ pc' = "createTopic"
                   /\ UNCHANGED ret
    /\ UNCHANGED <<flags, initMsgBytes, sent, topicCalls, consumeCalls, composeFaults,
                   stdout, regVars, streamVars, storeVars>>

\* lines 52-55: create the topic on the messenger
CreateTopicStep ==
    /\ pc = "createTopic"
    /\ \E outcome \in PostOutcomes :
          LET url == MessengerAddr \o <<"/topics">>
              err == CreateTopic(url, outcome)
          IN  /\ topicCalls' = Append(topicCalls,
                     [url |-> url,
                      body |-> TopicJSON(HexEncodeToString(requestID), alloperators),
                      outcome |-> outcome])
              /\ IF err # NoError
                 THEN /\ ret' = Wrap("HandleResharing: failed to createa new topic on messenger service", err)
                      /\ pc' = "returned"
                 ELSE /\ pc' = "initMsg"
                      /\ UNCHANGED ret
    /\ UNCHANGED <<flags, request, requestID, alloperators, initMsgBytes, sent,
                   consumeCalls, composeFaults, stdout, regVars, streamVars, storeVars>>

\* lines 57-60: compose the initiation message
InitMsgStep ==
    /\ pc = "initMsg"
    /\ \E encodeErrs \in SUBSET EncodeSteps :
         \E newOrder \in newOperators(request) :
           \E oldOrder \in oldOperators(request) :
             LET r == initMsgForResharing(request, requestID, newOrder, oldOrder, encodeErrs)
             IN  /\ composeFaults' = r.faults
                 /\ IF r.err # NoError
                    THEN /\ ret' = Wrap("HandleResharing: failed to generate init message for keygen", r.err)
                         /\ pc' = "returned"
                         /\ UNCHANGED initMsgBytes
                    ELSE /\ initMsgBytes' = r.bytes
                         /\ pc' = "deliver"
                         /\ UNCHANGED ret
    /\ UNCHANGED <<flags, request, requestID, alloperators, sent, topicCalls,
                   consumeCalls, stdout, regVars, streamVars, storeVars>>

\* the POST with a payload made for the recipient (a mutant of ConsumePost)
ConsumePost_PerRecipient(operatorID, addr, data, outcome) ==
    [operatorID |-> operatorID, addr |-> addr, url |-> addr \o <<"/consume">>,
     body |-> [recipient |-> operatorID, data |-> data], outcome |-> outcome]

\* the POST sendReshareMsg makes (lines 74-75): the url and the body, with its outcome
ConsumePost(operatorID, addr, data, outcome) ==
    [operatorID |-> operatorID, addr |-> addr, url |-> addr \o <<"/consume">>,
     body |-> data, outcome |-> outcome]

\* lines 62-67: one iteration of the delivery loop
SendStep ==
    /\ pc = "deliver"
    /\ sent < Len(alloperators)
    /\ \E outcome \in PostOutcomes :
          LET operatorID == alloperators[sent + 1]
              addr == nodeAddress(request, operatorID)
              url == addr \o <<"/consume">>
              err == sendReshareMsg(operatorID, url, outcome)
          IN  /\ consumeCalls' = Append(consumeCalls,
                     ConsumePost(operatorID, addr, initMsgBytes, outcome))
              /\ IF err # NoError
                 THEN /\ ret' = err
                      /\ pc' = "returned"
                      /\ UNCHANGED sent
                 ELSE /\ sent' = sent + 1
                      /\ UNCHANGED <<ret, pc>>
    /\ UNCHANGED <<flags, request, requestID, alloperators, initMsgBytes, topicCalls,
                   composeFaults, stdout, regVars, streamVars, storeVars>>

\* the announcement made without waiting for the end of the loop (a mutant of
\* ReturnStep)
ReturnStep_Early ==
    /\ pc = "deliver"
    /\ stdout' = Append(stdout, [text |-> "resharing init request sent with ID",
                                 id |-> HexEncodeToString(requestID)])
    /\ ret' = NoError
    /\ pc' = "returned"
    /\ UNCHANGED <<flags, request, requestID, alloperators, initMsgBytes, sent,
                   topicCalls, consumeCalls, composeFaults, regVars, streamVars, storeVars>>

\* lines 69-70: the loop is over; print the request ID and return nil
ReturnStep ==
    /\ pc = "deliver"
    /\ sent = Len(alloperators)
    /\ stdout' = Append(stdout, [text |-> "resharing init request sent with ID",
                                 id |-> HexEncodeToString(requestID)])
    /\ ret' = NoError
    /\ pc' = "returned"
    /\ UNCHANGED <<flags, request, requestID, alloperators, initMsgBytes, sent,
                   topicCalls, consumeCalls, composeFaults, regVars, streamVars, storeVars>>

Next == ParseStep \/ CreateTopicStep \/ InitMsgStep \/ SendStep \/ ReturnStep

Spec == InitReshare /\ [][Next]_vars

\* The Timeout of the http.Client that NewMessengerClient builds (client.go,
\* lines 53-56): the field is not set, and the zero value means no timeout.
MessengerClientTimeout == 0

\* lines 52-55 when the messenger never answers the POST to /topics: with a
\* timeout the client gives up with a transport error; with none, Post does
\* not return.
CreateTopicNoAnswer ==
    /\ pc = "createTopic"
    /\ LET url == MessengerAddr \o <<"/topics">>
       IN  /\ topicCalls' = Append(topicCalls,
                  [url |-> url,
                   body |-> TopicJSON(HexEncodeToString(requestID), alloperators),
                   outcome |-> "noAnswer"])
           /\ IF MessengerClientTimeout > 0
              THEN /\ ret' = Wrap("HandleResharing: failed to createa new topic on messenger service",
                                  CreateTopic(url, "transportError"))
                   /\ pc' = "returned"
              ELSE /\ pc' = "blocked"
                   /\ UNCHANGED ret
    /\ UNCHANGED <<flags, request, requestID, alloperators, initMsgBytes, sent,
                   consumeCalls, composeFaults, stdout, regVars, streamVars, storeVars>>

NextNoAnswer ==
    ParseStep \/ CreateTopicStep \/ CreateTopicNoAnswer \/ InitMsgStep \/ SendStep
        \/ ReturnStep

\* HandleResharing with a messenger that may never answer
SpecNoAnswer == InitReshare /\ [][NextNoAnswer]_vars

----------------------------------------------------------------------------
(* RegisterOperatorNode (internal/messenger/client.go, lines 104-139) *)

numtries == 3

DefaultTopic == <<"default">>

RegisterIDs == { <<"1">>, <<"2">>, <<"1", "0">> }
RegisterAddrs == { <<"a">>, <<"b">>, <<"c">>, <<>> }

\* err.Error(): calling a method of a nil error value is a nil pointer
\* dereference, which panics
ErrorText(err) == IF err = NoError THEN [panic |-> TRUE] ELSE [panic |-> FALSE, text |-> err]

\* the err that cl.client.Post returns beside the response (line 117)
PostError(url, outcome) == IF outcome = "transportError" THEN TransportError(url) ELSE NoError

\* the return statement with the test off by one (a mutant of RegisterResult)
RegisterResult_OffByOne(t, errs) ==
    IF t >= numtries
    THEN [kind |-> "registerFailed", tries |-> numtries, errors |-> errs]
    ELSE NoError

\* the return statement after the loop (lines 135-138)
RegisterResult(t, errs) ==
    IF t > numtries
    THEN [kind |-> "registerFailed", tries |-> numtries, errors |-> errs]
    ELSE NoError

InitRegister ==
    /\ StreamIdle
    /\ StoreIdle
    /\ regArgs \in [id : RegisterIDs, addr : RegisterAddrs]
    /\ regPc = "loop"
    /\ try = 1
    /\ errors = <<>>
    /\ regCalls = <<>>
    /\ regRet = NoError
    /\ flags = [operator |-> <<>>, oldOperator |-> <<>>, threshold |-> 0,
                validatorPK |-> <<>>]
    /\ pc = "idle"
    /\ request = EmptyRequest
    /\ requestID = <<>>
    /\ alloperators = <<>>
    /\ initMsgBytes = NilBytes
    /\ sent = 0
    /\ topicCalls = <<>>
    /\ consumeCalls = <<>>
    /\ composeFaults = {}
    /\ stdout = <<>>
    /\ ret = NoError

\* one iteration of the loop (lines 109-133): the POST and what follows it
RegisterAttempt ==
    /\ regPc = "loop"
    /\ try <= numtries
    /\ \E outcome \in PostOutcomes :
          LET sub == [Name |-> regArgs.id, SrvAddr |-> regArgs.addr]
              url == MessengerAddr \o <<"/register_node?subscribes_to=">> \o DefaultTopic
              err == PostError(url, outcome)
          IN  /\ regCalls' = Append(regCalls, [url |-> url, body |-> sub, try |-> try,
                                               outcome |-> outcome])
              /\ IF err # NoError
                 THEN \* lines 118-123: record the error and continue
                      /\ errors' = Append(errors,
                             [kind |-> "requestFailed", cause |-> ErrorText(err).text])
                      /\ try' = try + 1
                      /\ regPc' = IF try + 1 <= numtries THEN "loop" ELSE "afterLoop"
                 ELSE IF outcome # "200"
                 THEN \* lines 126-129: the message is built from err.Error(), and
                      \* err is the nil error of the POST
                      IF ErrorText(err).panic
                      THEN /\ regPc' = "panicked"
                           /\ UNCHANGED <<errors, try>>
                      ELSE /\ errors' = Append(errors,
                                  [kind |-> "registerStatus", name |-> sub.Name,
                                   try |-> try, cause |-> ErrorText(err).text])
                           /\ try' = try + 1
                           /\ regPc' = IF try + 1 <= numtries THEN "loop" ELSE "afterLoop"
                 ELSE \* lines 130-132: break
                      /\ regPc' = "afterLoop"
                      /\ UNCHANGED <<errors, try>>
    /\ UNCHANGED <<regArgs, regRet, reshareVars, streamVars, storeVars>>

\* lines 135-138
RegisterReturn ==
    /\ regPc = "afterLoop"
    /\ regRet' = RegisterResult(try, errors)
    /\ regPc' = "returned"
    /\ UNCHANGED <<regArgs, try, errors, regCalls, reshareVars, streamVars, storeVars>>

NextRegister == RegisterAttempt \/ RegisterReturn

SpecRegister == InitRegister /\ [][NextRegister]_vars

----------------------------------------------------------------------------
(* StreamDKGOutput (internal/messenger/client.go, lines 69-86 and 154-165) *)

\* a nil *dkg.Output or *dkg.KeySignOutput, and one carrying a request ID
NilData == [isNil |-> TRUE, RequestID |-> <<>>]
DataOf(id) == [isNil |-> FALSE, RequestID |-> id]

\* the signed outputs explored: each of Data and KeySignData nil or set
SignedOutputs ==
    [Data : {NilData} \cup {DataOf(id) : id \in RequestIDs},
     KeySignData : {NilData} \cup {DataOf(id) : id \in RequestIDs}]

StreamOperatorIDs == {1, 2, 3}

\* the maps given to StreamDKGOutput
OutputMaps ==
    UNION {[S -> SignedOutputs] :
             S \in {T \in SUBSET StreamOperatorIDs : Cardinality(T) <= MaxOutputs}}

\* the loop with a request ID that an output without data resets (a mutant of
\* LoopRequestID)
RECURSIVE LoopRequestID_Reset(_, _, _)
LoopRequestID_Reset(order, out, rid) ==
    IF order = <<>> THEN rid
    ELSE LET o == out[Head(order)]
         IN  LoopRequestID_Reset(Tail(order), out,
                 IF ~o.Data.isNil THEN HexEncodeToString(o.Data.RequestID)
                 ELSE IF ~o.KeySignData.isNil
                      THEN HexEncodeToString(o.KeySignData.RequestID)
                      ELSE <<>>)

\* the loop of lines 73-79 over the map, ranged in the given order: the
\* request ID it leaves, starting from rid
RECURSIVE LoopRequestID(_, _, _)
LoopRequestID(order, out, rid) ==
    IF order = <<>> THEN rid
    ELSE LET o == out[Head(order)]
         IN  LoopRequestID(Tail(order), out,
                 IF ~o.Data.isNil THEN HexEncodeToString(o.Data.RequestID)
                 ELSE IF ~o.KeySignData.isNil
                      THEN HexEncodeToString(o.KeySignData.RequestID)
                      ELSE rid)

\* the error stream returns for the outcome of its POST (lines 155-164)
stream(urlparam, url, outcome) ==
    IF outcome = "transportError" THEN TransportError(url)
    ELSE IF outcome # "200" THEN [kind |-> "streamStatus", urlparam |-> urlparam]
         ELSE NoError

InitStream ==
    /\ output \in OutputMaps
    /\ streamPc = "start"
    /\ streamCalls = <<>>
    /\ streamRet = NoError
    /\ StoreIdle
    /\ flags = [operator |-> <<>>, oldOperator |-> <<>>, threshold |-> 0,
                validatorPK |-> <<>>]
    /\ pc = "idle"
    /\ request = EmptyRequest
    /\ requestID = <<>>
    /\ alloperators = <<>>
    /\ initMsgBytes = NilBytes
    /\ sent = 0
    /\ topicCalls = <<>>
    /\ consumeCalls = <<>>
    /\ composeFaults = {}
    /\ stdout = <<>>
    /\ ret = NoError
    /\ regArgs = [id |-> <<>>, addr |-> <<>>]
    /\ regPc = "idle"
    /\ try = 0
    /\ errors = <<>>
    /\ regCalls = <<>>
    /\ regRet = NoError

\* StreamDKGOutput, whole: the loop over the map in some order, json.Marshal,
\* and the POST of stream
StreamDKGOutputStep ==
    /\ streamPc = "start"
    /\ \E order \in MapOrders(DOMAIN output) :
         \E marshalFails \in BOOLEAN :
           \E outcome \in PostOutcomes :
             LET rid == LoopRequestID(order, output, <<>>)
                 url == MessengerAddr \o <<"/stream/", "dkgoutput", "?request_id=">> \o rid
             IN  IF marshalFails
                 THEN /\ streamRet' = [kind |-> "encode", step |-> "json.Marshal"]
                      /\ UNCHANGED streamCalls
                 ELSE /\ streamCalls' = Append(streamCalls,
                             [url |-> url, requestID |-> rid, body |-> output,
                              outcome |-> outcome])
                      /\ streamRet' = stream("dkgoutput", url, outcome)
    /\ streamPc' = "returned"
    /\ UNCHANGED <<output, reshareVars, regVars, storeVars>>

NextStream == StreamDKGOutputStep

SpecStream == InitStream /\ [][NextStream]_vars

----------------------------------------------------------------------------
(* Storage.GetDKGOperator (internal/messenger/client.go, lines 233-276) *)

StoreOperatorIDs == {1, 2}

\* a nil *dkg.Operator, and the operator record of an ID
NilOperator == [isNil |-> TRUE, OperatorID |-> 0]
OperatorOf(id) == [isNil |-> FALSE, OperatorID |-> id]

\* fmt.Sprintf("operator/%d", operatorID)
OperatorKey(operatorID) == <<"operator/">> \o Itoa(operatorID)

\* json.Marshal of an operator: the text of its fields
MarshalOperator(op) == [json |-> "object", OperatorID |-> Itoa(op.OperatorID)]

\* a stored value that is not the JSON of an operator
CorruptValue == [json |-> "garbage", OperatorID |-> <<>>]

\* json.Unmarshal into a dkg.Operator
UnmarshalOperator(val) ==
    IF val.json = "object" /\ Atoi(val.OperatorID).err = NoError
    THEN [err |-> NoError, operator |-> OperatorOf(Atoi(val.OperatorID).val)]
    ELSE [err |-> [kind |-> "jsonSyntax"], operator |-> NilOperator]

\* FetchOperatorByID: the record of the operator, or an error
FetchOutcomes == {"fetched", "fetchError"}
FetchOperatorByID(operatorID, outcome) ==
    IF outcome = "fetched"
    THEN [err |-> NoError, operator |-> OperatorOf(operatorID)]
    ELSE [err |-> [kind |-> "fetchFailed"], operator |-> NilOperator]

\* what a call returns, with the store it leaves
GetResult(id, found, op, err, store, fetched) ==
    [id |-> id, found |-> found, operator |-> op, err |-> err, db |-> store,
     fetched |-> fetched]

\* GetDKGOperator that returns the fetched operator without storing it (a
\* mutant of GetDKGOperator)
GetDKGOperator_NoStore(store, operatorID, readFails, fetchOutcome, marshalFails, updateFails) ==
    LET key == OperatorKey(operatorID)
    IN  IF readFails
        THEN GetResult(operatorID, FALSE, NilOperator, [kind |-> "readFailed"], store, FALSE)
        ELSE IF key \in DOMAIN store
        THEN LET u == UnmarshalOperator(store[key])
             IN  IF u.err # NoError
                 THEN GetResult(operatorID, FALSE, NilOperator, u.err, store, FALSE)
                 ELSE GetResult(operatorID, TRUE, u.operator, NoError, store, FALSE)
        ELSE LET f == FetchOperatorByID(operatorID, fetchOutcome)
             IN  IF f.err # NoError
                 THEN GetResult(operatorID, FALSE, NilOperator, f.err, store, TRUE)
                 ELSE GetResult(operatorID, TRUE, f.operator, NoError, store, TRUE)

\* GetDKGOperator on a store, with the outcome of each thing that can fail:
\* the read of the store (an error other than ErrKeyNotFound), the remote
\* fetch, json.Marshal and the write of the store
GetDKGOperator(store, operatorID, readFails, fetchOutcome, marshalFails, updateFails) ==
    LET key == OperatorKey(operatorID)
    IN  IF readFails
        THEN \* lines 251-253
             GetResult(operatorID, FALSE, NilOperator, [kind |-> "readFailed"], store, FALSE)
        ELSE IF key \in DOMAIN store
        THEN \* lines 256-259: the value is in the store
             LET u == UnmarshalOperator(store[key])
             IN  IF u.err # NoError
                 THEN GetResult(operatorID, FALSE, NilOperator, u.err, store, FALSE)
                 ELSE GetResult(operatorID, TRUE, u.operator, NoError, store, FALSE)
        ELSE \* lines 249-250 and 260-274: ErrKeyNotFound, fetch and store
             LET f == FetchOperatorByID(operatorID, fetchOutcome)
             IN  IF f.err # NoError
                 THEN GetResult(operatorID, FALSE, NilOperator, f.err, store, TRUE)
                 ELSE IF marshalFails
                 THEN GetResult(operatorID, FALSE, NilOperator,
                                [kind |-> "marshalFailed"], store, TRUE)
                 ELSE IF updateFails
                 THEN GetResult(operatorID, FALSE, NilOperator,
                                [kind |-> "updateFailed"], store, TRUE)
                 ELSE GetResult(operatorID, TRUE, f.operator, NoError,
                                MapPut(store, key, MarshalOperator(f.operator)), TRUE)

\* the stores a run starts with: each key absent, holding an operator, or
\* holding a value that does not decode
InitialStores ==
    {store \in UNION {[{OperatorKey(id) : id \in S} ->
                          {CorruptValue}
                          \cup {MarshalOperator(OperatorOf(id)) : id \in StoreOperatorIDs}] :
                        S \in SUBSET StoreOperatorIDs} :
        \A id \in StoreOperatorIDs :
            OperatorKey(id) \in DOMAIN store =>
                store[OperatorKey(id)] \in {CorruptValue, MarshalOperator(OperatorOf(id))}}

InitStore ==
    /\ db \in InitialStores
    /\ getCalls = <<>>
    /\ StreamIdle
    /\ flags = [operator |-> <<>>, oldOperator |-> <<>>, threshold |-> 0,
                validatorPK |-> <<>>]
    /\ pc = "idle"
    /\ request = EmptyRequest
    /\ requestID = <<>>
    /\ alloperators = <<>>
    /\ initMsgBytes = NilBytes
    /\ sent = 0
    /\ topicCalls = <<>>
    /\ consumeCalls = <<>>
    /\ composeFaults = {}
    /\ stdout = <<>>
    /\ ret = NoError
    /\ regArgs = [id |-> <<>>, addr |-> <<>>]
    /\ regPc = "idle"
    /\ try = 0
    /\ errors = <<>>
    /\ regCalls = <<>>
    /\ regRet = NoError

\* one call of GetDKGOperator, whole
GetDKGOperatorStep ==
    /\ Len(getCalls) < MaxCalls
    /\ \E id \in StoreOperatorIDs :
         \E readFails, marshalFails, updateFails \in BOOLEAN :
           \E fetchOutcome \in FetchOutcomes :
             LET r == GetDKGOperator(db, id, readFails, fetchOutcome, marshalFails,
                                     updateFails)
             IN  /\ db' = r.db
                 /\ getCalls' = Append(getCalls,
                        [id |-> r.id, found |-> r.found, operator |-> r.operator,
                         err |-> r.err, fetched |-> r.fetched,
                         absent |-> OperatorKey(id) \notin DOMAIN db,
                         failed |-> \/ readFails
                                    \/ /\ r.fetched
                                       /\ \/ fetchOutcome = "fetchError"
                                          \/ ~marshalFails /\ updateFails])
    /\ UNCHANGED <<reshareVars, regVars, streamVars>>

NextStore == GetDKGOperatorStep

SpecStore == InitStore /\ [][NextStore]_vars

----------------------------------------------------------------------------
(* Vocabulary of the properties *)

ParseFailedMsg == "HandleResharing: failed to parse resharing request"

\* HandleResharing has returned
Returned == pc = "returned"

\* initMsgForResharing returned a payload and no error (topic creation came before)
Composed == initMsgBytes # NilBytes

\* the calls of a list that did not get a 200
FailedCalls(calls) == {i \in 1..Len(calls) : calls[i].outcome # "200"}

\* a specification as the user wrote it is malformed: after the surrounding
\* blanks are cut, it does not hold exactly one "=", or what stands before the
\* "=" is not a decimal number (a sign, then digits)
EqPositions(t) == {i \in 1..Len(t) : t[i] = "="}
IsNumeric(s) ==
    LET d == IF s # <<>> /\ s[1] \in {"-", "+"} THEN Tail(s) ELSE s
    IN  /\ d # <<>>
        /\ \A i \in 1..Len(d) : d[i] \in {"0", "1", "2", "3", "4", "5", "6", "7", "8", "9"}
Malformed(tok) ==
    LET t == Trim(tok, " ")
    IN  \/ Cardinality(EqPositions(t)) # 1
        \/ ~IsNumeric(SubSeq(t, 1, (CHOOSE i \in EqPositions(t) : TRUE) - 1))
HasMalformed(list) == \E i \in 1..Len(list) : Malformed(list[i])

----------------------------------------------------------------------------
(* Properties of HandleResharing *)

\* C1: once topic creation and message composition have succeeded, a delivery
\* call is issued to every operator of the recipient list, whatever the outcome
\* of the calls to the other operators: when the command has returned, every
\* recipient has been called.
C1_EveryRecipientCalled ==
    (Returned /\ Composed) =>
        /\ Len(consumeCalls) = Len(alloperators)
        /\ \A i \in 1..Len(alloperators) : consumeCalls[i].operatorID = alloperators[i]

\* C2: whenever parsing, topic creation and composition have succeeded, the
\* command ends with a nil error and the session identifier has been printed,
\* even if deliveries failed.
C2_SessionIDReported ==
    (Returned /\ Composed) =>
        /\ ret = NoError
        /\ \E i \in 1..Len(stdout) : stdout[i].id = HexEncodeToString(requestID)

\* the per-operator failure records found in what HandleResharing hands back
ReportedFailures == IF ret = NoError \/ ret.kind = "wrapped" THEN {} ELSE {ret}

\* a failure record names the operator ID and the address of a call
Identifies(r, call) ==
    /\ "operatorID" \in DOMAIN r
    /\ r.operatorID = call.operatorID
    /\ "url" \in DOMAIN r
    /\ r.url = call.url

\* C3: over N recipients of which M fail, the result holds exactly M failure
\* records, each naming the failing operator's ID and address, and it is
\* produced only after all N attempts were made.
C3_ReportHasEveryFailure ==
    (Returned /\ Composed) =>
        /\ Len(consumeCalls) = Len(alloperators)
        /\ Cardinality(ReportedFailures) = Cardinality(FailedCalls(consumeCalls))
        /\ \A i \in FailedCalls(consumeCalls) :
               \E r \in ReportedFailures : Identifies(r, consumeCalls[i])

\* C4: CreateTopic is called at most once in a run, exactly once by the time
\* the command has returned when parsing succeeded, and when that call fails
\* (transport error or a status other than 200) no /consume call is ever made.
C4_TopicOnceThenFatal ==
    /\ Len(topicCalls) <= 1
    /\ (Returned /\ parseResharingRequest(flags).err = NoError) => Len(topicCalls) = 1
    /\ FailedCalls(topicCalls) # {} => consumeCalls = <<>>

\* C4, its case: the only topic call got a status other than 200, there were
\* operators to deliver to, and the command has returned
C4_Witness ==
    /\ Returned
    /\ Len(topicCalls) = 1
    /\ topicCalls[1].outcome = "500"
    /\ Len(alloperators) >= 2

\* C5: if the validator public key is not valid hex, the command fails and no
\* POST to /topics has been made.
C5_BadKeyNoTopic ==
    HexDecodeString(flags.validatorPK).err # NoError =>
        /\ topicCalls = <<>>
        /\ Returned => ret # NoError

\* C6: an error in any decoding or encoding step of the composition makes
\* HandleResharing fail before any delivery call: no delivery call is ever made
\* in a run where a step of the composition erred, and such a run returns an
\* error.
C6_ComposeErrorIsFatal ==
    composeFaults # {} =>
        /\ consumeCalls = <<>>
        /\ Returned => ret # NoError

\* C7: if an operator or old-operator specification is malformed, the parse
\* fails and the run makes no network call: the command returns the parse
\* error at its first step, with no topic created and nothing delivered.
C7_MalformedNoNetwork ==
    (HasMalformed(flags.operator) \/ HasMalformed(flags.oldOperator)) =>
        /\ topicCalls = <<>>
        /\ consumeCalls = <<>>
        /\ pc # "start" =>
              /\ Returned
              /\ ret.kind = "wrapped"
              /\ ret.msg = ParseFailedMsg

\* C7, its case: the new operators are well formed, an old operator is
\* malformed, and the command has returned
C7_Witness ==
    /\ Returned
    /\ flags.operator # <<>>
    /\ ~HasMalformed(flags.operator)
    /\ HasMalformed(flags.oldOperator)

\* the operators of a session: the union of the new and the old ones
AllOperatorIDs == (DOMAIN request.Operators) \cup (DOMAIN request.OperatorsOld)

\* the elements of a sequence
Range(seq) == {seq[i] : i \in 1..Len(seq)}

\* C11: the subscriber list CreateTopic sends is the union of the new and old
\* operator IDs, as decimal strings, under the session ID in hex, and by the
\* time the command has returned after composing the payload, delivery has
\* been attempted to the address of every operator of that union.
C11_UnionSubscribedAndDelivered ==
    /\ \A i \in 1..Len(topicCalls) :
          /\ topicCalls[i].body.TopicName = HexEncodeToString(requestID)
          /\ Range(topicCalls[i].body.Subscribers) = {Itoa(id) : id \in AllOperatorIDs}
    /\ (Returned /\ Composed) =>
          {consumeCalls[i].addr : i \in 1..Len(consumeCalls)}
              = {nodeAddress(request, id) : id \in AllOperatorIDs}

\* C12: the payload is composed once and every /consume POST of the session
\* carries it unchanged: each call made so far has, as its body, the payload
\* the session holds now, whoever the recipient is.
C12_SamePayloadForAll ==
    \A i \in 1..Len(consumeCalls) :
        /\ Composed
        /\ consumeCalls[i].body = initMsgBytes

\* C12, its case: two different operators have been called
C12_Witness ==
    /\ Len(consumeCalls) = 2
    /\ consumeCalls[1].operatorID # consumeCalls[2].operatorID

\* what a well-formed specification says: the number before the "=" and the
\* text after it
SpecEq(tok) == CHOOSE i \in EqPositions(Trim(tok, " ")) : TRUE
SpecID(tok) == Atoi(SubSeq(Trim(tok, " "), 1, SpecEq(tok) - 1)).val
SpecAddr(tok) == SubSeq(Trim(tok, " "), SpecEq(tok) + 1, Len(Trim(tok, " ")))

\* the map a well-formed list stands for: each ID with the address of its last
\* occurrence
LastOccurrence(list, id) ==
    CHOOSE i \in 1..Len(list) :
        /\ SpecID(list[i]) = id
        /\ \A j \in (i + 1)..Len(list) : SpecID(list[j]) # id
ExpectedMap(list) ==
    [id \in {SpecID(list[i]) : i \in 1..Len(list)} |->
        SpecAddr(list[LastOccurrence(list, id)])]

\* C13: for well-formed lists, the maps parseResharingRequest leaves hold
\* exactly the ID-to-address pairs of the lists, new and old apart, an ID given
\* twice in a list keeping the address of its last occurrence.
C13_MapsHoldParsedPairs ==
    (pc # "start" /\ ~HasMalformed(flags.operator) /\ ~HasMalformed(flags.oldOperator)) =>
        /\ request.Operators = ExpectedMap(flags.operator)
        /\ request.OperatorsOld = ExpectedMap(flags.oldOperator)

\* C13, its case: a well-formed list gives the same ID twice, with two addresses
C13_Witness ==
    /\ pc # "start"
    /\ Len(flags.operator) = 2
    /\ ~HasMalformed(flags.operator)
    /\ SpecID(flags.operator[1]) = SpecID(flags.operator[2])
    /\ SpecAddr(flags.operator[1]) # SpecAddr(flags.operator[2])

\* the ID part of a specification is a non-negative integer: digits only
IDPart(tok) == Split(Trim(tok, " "), "=")[1]
IsNonNegativeInteger(s) ==
    /\ s # <<>>
    /\ \A i \in 1..Len(s) : s[i] \in {"0", "1", "2", "3", "4", "5", "6", "7", "8", "9"}
HasBadID(list) == \E i \in 1..Len(list) : ~IsNonNegativeInteger(IDPart(list[i]))

\* C14: a specification whose ID part is not a non-negative integer (-1
\* included) makes the parse fail, and no operator with a negative ID is ever
\* in the new or old operator map.
C14_NegativeIDRejected ==
    /\ (HasBadID(flags.operator) \/ HasBadID(flags.oldOperator)) =>
          (pc # "start" => (Returned /\ ret.kind = "wrapped" /\ ret.msg = ParseFailedMsg))
    /\ \A id \in AllOperatorIDs : id >= 0

\* the threshold carried by the payload, when its encoders did not err
PayloadThreshold == initMsgBytes.Data.Message.Data.Threshold

\* C15: a session that reaches topic provisioning or composition has a
\* threshold that is positive and not greater than the number of new
\* operators, and the threshold in the payload is the one of the request.
C15_ThresholdInRange ==
    /\ pc \in {"createTopic", "initMsg", "deliver"} =>
          /\ request.Threshold >= 1
          /\ request.Threshold <= Cardinality(DOMAIN request.Operators)
    /\ (Composed /\ composeFaults = {}) => PayloadThreshold = flags.threshold

C17_OncePerOperator ==
    /\ \A i \in 1..Len(topicCalls) :
          Len(topicCalls[i].body.Subscribers) = Cardinality(AllOperatorIDs)
    /\ (Returned /\ ret = NoError) =>
          /\ Len(consumeCalls) = Cardinality(AllOperatorIDs)
          /\ \A id \in AllOperatorIDs :
                Cardinality({i \in 1..Len(consumeCalls) : consumeCalls[i].operatorID = id}) = 1

\* C18: every topic-provisioning and delivery call is bounded by a timeout, so
\* that HandleResharing returns even when the other side never answers: the
\* command is never left waiting, without bound, on a POST that gets no answer.
C18_NoCallWaitsForever == pc # "blocked"

----------------------------------------------------------------------------
(* Properties of StreamDKGOutput *)

\* the identifier a signed output carries: the one of its Data, or of its
\* KeySignData when it has no Data
CarriesIdentifier(o) == ~o.Data.isNil \/ ~o.KeySignData.isNil
OutputIdentifier(o) ==
    IF ~o.Data.isNil THEN o.Data.RequestID ELSE o.KeySignData.RequestID

\* the identifiers the outputs of the collection carry
CarriedIDs ==
    {OutputIdentifier(output[k]) : k \in {x \in DOMAIN output : CarriesIdentifier(output[x])}}

\* C19 as claimed: the request ID streamed under is fixed by the collection and
\* not by the order of iteration: it is the identifier the outputs share, and a
\* collection whose outputs carry different identifiers is not streamed under
\* one of them.
C19_NoArbitraryRequestID ==
    \A i \in 1..Len(streamCalls) :
        /\ Cardinality(CarriedIDs) <= 1
        /\ \A id \in CarriedIDs : streamCalls[i].requestID = HexEncodeToString(id)

\* C19 as amended: StreamDKGOutput streams under the hex of an identifier that
\* an output of the collection carries, so under the shared identifier when
\* all the outputs that carry one carry the same, whatever the order of
\* iteration (and under the empty string when no output carries any).
C19_SharedRequestIDStreamed ==
    \A i \in 1..Len(streamCalls) :
        IF CarriedIDs = {}
        THEN streamCalls[i].requestID = <<>>
        ELSE streamCalls[i].requestID \in {HexEncodeToString(id) : id \in CarriedIDs}

\* C19, its case: a collection of two outputs, one carrying the identifier and
\* one carrying none, has been streamed
C19_Witness ==
    /\ Len(streamCalls) = 1
    /\ Cardinality(DOMAIN output) = 2
    /\ Cardinality(CarriedIDs) = 1
    /\ \E k \in DOMAIN output : ~CarriesIdentifier(output[k])

----------------------------------------------------------------------------
(* Properties of GetDKGOperator *)

\* C20: a call returns found=true with an operator exactly when it returns no
\* error; a failed read of the store, remote fetch or write of the store gives
\* an error with found=false; and after a successful call for an ID that was
\* absent from the store, the record is stored under the key of that ID, and a
\* later call for the ID makes no remote fetch and, when it succeeds, returns
\* that record.
C20_FoundIffNoErrorAndPersisted ==
    \A i \in 1..Len(getCalls) :
        LET c == getCalls[i]
        IN  /\ c.found <=> c.err = NoError
            /\ c.found <=> ~c.operator.isNil
            /\ c.failed => (~c.found /\ c.err # NoError)
            /\ c.fetched => c.absent
            /\ (c.found /\ c.absent) =>
                  /\ OperatorKey(c.id) \in DOMAIN db
                  /\ db[OperatorKey(c.id)] = MarshalOperator(c.operator)
                  /\ \A j \in (i + 1)..Len(getCalls) :
                        getCalls[j].id = c.id =>
                            /\ ~getCalls[j].fetched
                            /\ getCalls[j].found => getCalls[j].operator = c.operator

\* C20, its case: a call fetched and stored an absent operator, and a later
\* call for the same ID found it
C20_Witness ==
    \E i, j \in 1..Len(getCalls) :
        /\ i < j
        /\ getCalls[i].id = getCalls[j].id
        /\ getCalls[i].absent
        /\ getCalls[i].found
        /\ getCalls[j].found

----------------------------------------------------------------------------
(* Properties of RegisterOperatorNode *)

\* RegisterOperatorNode has ended, by returning or by a panic
RegisterEnded == regPc \in {"returned", "panicked"}

\* C8: an attempt answered with a status other than 200 is recorded as an error
\* and the loop goes on, as for a transport error: every failed attempt has its
\* entry in the error list, and two failures followed by a 200 end in success
\* after exactly 3 attempts.
C8_StatusFailureRecorded ==
    /\ regPc # "panicked"
    /\ Len(errors) = Cardinality(FailedCalls(regCalls))
    /\ (regPc = "returned" /\ FailedCalls(regCalls) = {1, 2} /\ Len(regCalls) = numtries)
           => regRet = NoError

\* C9: at most 3 registration POSTs are made and the call always returns; when
\* every attempt fails, exactly 3 POSTs are made and the error returned carries
\* the 3 errors, one per attempt.
C9_ThreeAttemptsThenError ==
    /\ Len(regCalls) <= numtries
    /\ regPc # "panicked"
    /\ (RegisterEnded /\ FailedCalls(regCalls) = 1..Len(regCalls)) =>
           /\ Len(regCalls) = numtries
           /\ regRet.kind = "registerFailed"
           /\ Len(regRet.errors) = numtries

\* C10: the first attempt answered with 200 ends the loop: it is the last POST
\* of the call, and the call returns nil, also when it is the third attempt.
C10_SuccessEndsLoop ==
    \A i \in 1..Len(regCalls) :
        regCalls[i].outcome = "200" =>
            /\ i = Len(regCalls)
            /\ regPc \in {"afterLoop", "returned"}
            /\ regPc = "returned" => regRet = NoError

\* C10, its case: the third attempt got the 200 and the call has returned
C10_Witness ==
    /\ regPc = "returned"
    /\ Len(regCalls) = numtries
    /\ regCalls[numtries].outcome = "200"

====
